---- MODULE Spec2Model ----
(***************************************************************************)
(* Model of the rotation / retention scheduler of monitoring/tasks.py:     *)
(* the cycle rotate_and_append_daily_measurements() over the Measurement   *)
(* table, the worker thread _scheduler_worker() and the controller         *)
(* start_background_scheduler() / stop_background_scheduler().             *)
(*                                                                         *)
(* Time.  TIME_ZONE is America/Sao_Paulo, which has had a fixed UTC offset *)
(* since 2019, so from the bootstrap date 2025-01-01 on a local day is     *)
(* exactly 1440 minutes.  A timestamp is the number of local minutes since *)
(* 2025-01-01 00:00; its local date is the quotient by 1440.               *)
(*                                                                         *)
(* Store.  Measurement.ts carries an index but no unique constraint, so    *)
(* the table is a bag of timestamps.  A cycle runs inside one database     *)
(* transaction (READ COMMITTED): it reads the committed rows plus its own  *)
(* uncommitted changes, and its changes reach db when it commits.  A row   *)
(* is represented by its ts alone: the generated temperature and humidity  *)
(* are written once and never read back by the scheduler.                  *)
(*                                                                         *)
(* Values.  _generate_realistic_values() is followed on its own: gauss is  *)
(* the pair random.gauss returns and readings the (temperature, humidity)  *)
(* pairs written by create().  Floats are fixed-point integers: a          *)
(* temperature in 1/1000 degree and a humidity in 1/1000 percent before    *)
(* rounding, 1/100 degree and 1/10000 of the fraction after it.            *)
(*                                                                         *)
(* Grain.  One step of a cycle is one statement group of tasks.py: the     *)
(* latest() query, the day guard's count, one iteration of the insert loop *)
(* (parse, exists(), create()), the prune's count()/earliest(), the prune's*)
(* delete(), the final count(), and the commit.                            *)
(***************************************************************************)
EXTENDS Bags, FiniteSets, Integers, Sequences, TLC

\* ---------------------------------------------------------------- bounds
MaxCycles == 4      \* cycles that may be begun when they run one after the other
MaxConcCycles == 2  \* cycles that may be begun when threads interleave
MaxFaults == 1      \* store operations that may fail in one behaviour
MaxCalls == 3       \* start/stop calls that may be made in one behaviour
MaxBacklogDays == 3 \* days a store may hold when the process starts
MaxTargetDays == 2  \* largest SIM_TARGET_DAYS drawn
MaxDrift == 6       \* random.gauss lands up to this many 1/1000 around each clamp limit

\* -------------------------------------------------------- program constants
MinutesPerDay == 1440
MaxHour == 23
MaxMinute == 59
TempLow == 17000    \* 17.0 degrees, in 1/1000 degree
TempHigh == 19500   \* 19.5 degrees
TempMean == 18400   \* 18.4 degrees
RhLow == 56000      \* 56.0 percent, in 1/1000 percent
RhHigh == 65000     \* 65.0 percent
RhMean == 59000     \* 59.0 percent
Outlier == 1000000  \* a sample far outside both ranges

\* ------------------------------------------------------------- threads
Workers == {"w1", "w2"}         \* SimulatorScheduler threads that may be spawned
Forcers == {"f1"}               \* request handlers calling force_simulator_cycle
Callers == {"c1", "c2"}         \* threads calling start/stop_background_scheduler
Runners == Workers \cup Forcers \* threads that can execute a cycle
Threads == Runners \cup Callers
None == "None"

\* ------------------------------------------------- "HH:MM" configuration
\* A configured time is a string; it is modelled as its sequence of characters.
T0730 == <<"0", "7", ":", "3", "0">>
T1630 == <<"1", "6", ":", "3", "0">>
T730  == <<"7", ":", "3", "0">>          \* parses to the same time as T0730
T7xx  == <<"7", ":", "x", "x">>          \* unparsable minute
T2530 == <<"2", "5", ":", "3", "0">>     \* hour out of range
T0730s == <<"0", "7", ":", "3", "0", ":", "0">>  \* three fields

Err == -1   \* stands for the ValueError raised while parsing

DigitVal(c) ==
    CASE c = "0" -> 0 [] c = "1" -> 1 [] c = "2" -> 2 [] c = "3" -> 3
      [] c = "4" -> 4 [] c = "5" -> 5 [] c = "6" -> 6 [] c = "7" -> 7
      [] c = "8" -> 8 [] c = "9" -> 9 [] OTHER -> Err

\* time_str.split(':')
RECURSIVE split(_, _)
split(s, cur) ==
    IF s = <<>> THEN <<cur>>
    ELSE IF Head(s) = ":" THEN <<cur>> \o split(Tail(s), <<>>)
    ELSE split(Tail(s), Append(cur, Head(s)))

\* int(field): the value of a field of decimal digits; an empty field or a
\* field with a letter raises (the fields drawn here hold digits and letters)
RECURSIVE int(_, _)
int(s, acc) ==
    IF s = <<>> THEN acc
    ELSE IF DigitVal(Head(s)) = Err THEN Err
    ELSE int(Tail(s), acc * 10 + DigitVal(Head(s)))

\* hour, minute = map(int, time_str.split(':')); dt_time(hour, minute, 0)
\* The result is the minute of the day, or Err when any step raises.
ParseTime(time_str) ==
    LET parts == split(time_str, <<>>) IN
    IF Len(parts) # 2 THEN Err
    ELSE LET hour   == IF parts[1] = <<>> THEN Err ELSE int(parts[1], 0)
             minute == IF parts[2] = <<>> THEN Err ELSE int(parts[2], 0)
         IN  IF hour = Err \/ minute = Err THEN Err
             ELSE IF hour > MaxHour \/ minute > MaxMinute THEN Err
             ELSE hour * 60 + minute

\* ------------------------------------------------------------------ state
VARIABLES
    daily_times,        \* settings.SIM_DAILY_TIMES
    target_days,        \* settings.SIM_TARGET_DAYS
    enabled,            \* settings.ENABLE_SIM_JOB
    db,                 \* committed rows of monitoring_measurement (bag of ts)
    tx,                 \* per runner: uncommitted inserts / deletes of its transaction
    loc,                \* per runner: local variables of the cycle in progress
    res,                \* per runner: outcome of its latest cycle
    pc,                 \* per thread: position in its code
    _scheduler_running, \* tasks._scheduler_running
    _scheduler_thread,  \* tasks._scheduler_thread
    _scheduler_lock,    \* holder of tasks._scheduler_lock, or None
    ret,                \* per caller: [op, val] of its latest start/stop call ("True"/"False")
    faults,             \* store failures that may still happen
    started,            \* number of cycles begun so far
    cap,                \* number of cycles that may be begun
    calls,              \* number of start/stop calls made so far
    pre,                \* history: per runner, db when its latest cycle began
    prev,               \* history: per runner, outcome of the cycle before the latest
    fault,              \* history: per runner, a store operation failed in its latest cycle
    hist,               \* history: counts of the controller calls' outcomes
    gauss,              \* <<temperature, humidity>> as random.gauss returns them
    readings            \* <<temp_current, rh_current>> of the rows created

config == <<daily_times, target_days, enabled, cap>>
store == <<db, tx, loc, res, pre, prev, fault, started>>
control == <<_scheduler_running, _scheduler_thread, _scheduler_lock, ret, calls, hist>>
gen == <<gauss, readings>>
vars == <<daily_times, target_days, enabled, db, tx, loc, res, pc,
          _scheduler_running, _scheduler_thread, _scheduler_lock, ret,
          faults, started, cap, calls, pre, prev, fault, hist, gauss, readings>>

\* ------------------------------------------------------------ store reads
Min(a, b) == IF a <= b THEN a ELSE b

\* timezone.localtime(ts).date(), as a day number (0 is 2025-01-01)
LocalDate(ts) == ts \div MinutesPerDay

\* make_aware(datetime.combine(date, time(0, 0, 0)))
DayStart(date) == date * MinutesPerDay

\* The rows a statement of runner r's transaction sees.
View(r) == (db (-) tx[r].del) (+) tx[r].ins

\* filter(ts__gte=lo, ts__lt=hi)
InRange(b, lo, hi) ==
    [t \in {x \in DOMAIN b : b[x] > 0 /\ lo <= x /\ x < hi} |-> b[t]]

\* Measurement.objects.latest('ts').ts / earliest('ts').ts on a non-empty table
latest(b) == CHOOSE t \in BagToSet(b) : \A u \in BagToSet(b) : u <= t
\* (variant: the newest row is taken for the oldest)
earliest_newest(b) == latest(b)
earliest(b) == CHOOSE t \in BagToSet(b) : \A u \in BagToSet(b) : t <= u

\* Measurement.objects.count()
count(b) == BagCardinality(b)

\* (variant: the "+ timedelta(days=1)" is left out)
_get_next_day_same(b) ==
    IF BagToSet(b) = {} THEN DayStart(0)
    ELSE DayStart(LocalDate(latest(b)))

\* (variant: two days are added to the latest date)
_get_next_day_skip(b) ==
    IF BagToSet(b) = {} THEN DayStart(0)
    ELSE DayStart(LocalDate(latest(b)) + 2)

\* (variant: the bootstrap date is the day after 2025-01-01)
_get_next_day_late(b) ==
    IF BagToSet(b) = {} THEN DayStart(1)
    ELSE DayStart(LocalDate(latest(b)) + 1)

\* _get_next_day(): midnight of the day after the latest row, or of the
\* bootstrap date 2025-01-01 when the table is empty.
_get_next_day(b) ==
    IF BagToSet(b) = {} THEN DayStart(0)
    ELSE DayStart(LocalDate(latest(b)) + 1)

NoTx == [ins |-> EmptyBag, del |-> EmptyBag, aborted |-> FALSE]
NoLoc == [next_day |-> 0, i |-> 0, inserted_count |-> 0, removed_count |-> 0,
          oldest_day_start |-> 0]

InCycle(r) == pc[r] \in {"next", "guard", "insert", "prune", "delete", "stats", "commit"}

\* A worker loop that a failed cycle would end
AfterCycleQuit(r) ==
    IF r \in Workers
    THEN IF res[r] = "True" THEN "sleep" ELSE "done"
    ELSE "idle"

\* Where a runner continues when its cycle has returned: the worker sleeps
\* (time.sleep(interval)), the request handler answers.
AfterCycle(r) == IF r \in Workers THEN "sleep" ELSE "idle"

\* ------------------------------------------------------------- the cycle
\* rotate_and_append_daily_measurements() is entered: @transaction.atomic
\* opens the transaction.
Enter(r) ==
    /\ started < cap
    /\ started' = started + 1
    /\ tx' = [tx EXCEPT ![r] = NoTx]
    /\ loc' = [loc EXCEPT ![r] = NoLoc]
    /\ pre' = [pre EXCEPT ![r] = db]
    /\ prev' = [prev EXCEPT ![r] = res[r]]
    /\ fault' = [fault EXCEPT ![r] = FALSE]
    /\ res' = [res EXCEPT ![r] = None]

\* The body left through "return result" or through the except clause: both
\* leave the atomic block without an exception.
Return(r, result) ==
    /\ res' = [res EXCEPT ![r] = result]
    /\ pc' = [pc EXCEPT ![r] = "commit"]

\* next_day = _get_next_day()
GetNextDay(r) ==
    /\ pc[r] = "next"
    /\ loc' = [loc EXCEPT ![r].next_day = _get_next_day(View(r))]
    /\ pc' = [pc EXCEPT ![r] = "guard"]
    /\ UNCHANGED <<gen, config, control, db, tx, res, faults, started, pre, prev, fault>>

\* existing_count = filter(ts in [next_day, next_day + 1 day)).count()
existing_count(r) ==
    count(InRange(View(r), loc[r].next_day, loc[r].next_day + MinutesPerDay))

\* (variant: the day guard is left out)
DayGuardNone(r) ==
    /\ pc[r] = "guard"
    /\ loc' = [loc EXCEPT ![r].i = 1]
    /\ pc' = [pc EXCEPT ![r] = "insert"]
    /\ UNCHANGED res
    /\ UNCHANGED <<gen, config, control, db, tx, faults, started, pre, prev, fault>>

\* if existing_count > 0: return True
DayGuard(r) ==
    /\ pc[r] = "guard"
    /\ IF existing_count(r) > 0
       THEN /\ Return(r, "True")
            /\ UNCHANGED loc
       ELSE /\ loc' = [loc EXCEPT ![r].i = 1]
            /\ pc' = [pc EXCEPT ![r] = "insert"]
            /\ UNCHANGED res
    /\ UNCHANGED <<gen, config, control, db, tx, faults, started, pre, prev, fault>>

\* aware_dt of the time string being processed
aware_dt(r, minute) == DayStart(LocalDate(loc[r].next_day)) + minute

\* (variant: the row is created without looking for an existing one)
InsertRecordNoCheck(r) ==
    /\ pc[r] = "insert"
    /\ loc[r].i <= Len(daily_times)
    /\ LET minute == ParseTime(daily_times[loc[r].i]) IN
       IF minute = Err
       THEN /\ Return(r, "False")
            /\ UNCHANGED <<tx, loc>>
       ELSE /\ tx' = [tx EXCEPT ![r].ins = @ (+) SetToBag({aware_dt(r, minute)})]
            /\ loc' = [loc EXCEPT ![r].i = @ + 1,
                                  ![r].inserted_count = @ + 1]
            /\ UNCHANGED <<res, pc>>
    /\ UNCHANGED <<gen, config, control, db, faults, started, pre, prev, fault>>

\* One iteration of "for time_str in daily_times" in _insert_day_records:
\* parse, skip when a row with that exact ts is visible, else create the row.
\* A ValueError of the parse reaches the except clause of the cycle.
InsertRecord(r) ==
    /\ pc[r] = "insert"
    /\ loc[r].i <= Len(daily_times)
    /\ LET minute == ParseTime(daily_times[loc[r].i]) IN
       IF minute = Err
       THEN /\ Return(r, "False")
            /\ UNCHANGED <<tx, loc>>
       ELSE IF CopiesIn(aware_dt(r, minute), View(r)) > 0
       THEN /\ loc' = [loc EXCEPT ![r].i = @ + 1]
            /\ UNCHANGED <<tx, res, pc>>
       ELSE /\ tx' = [tx EXCEPT ![r].ins = @ (+) SetToBag({aware_dt(r, minute)})]
            /\ loc' = [loc EXCEPT ![r].i = @ + 1,
                                  ![r].inserted_count = @ + 1]
            /\ UNCHANGED <<res, pc>>
    /\ UNCHANGED <<gen, config, control, db, faults, started, pre, prev, fault>>

\* _insert_day_records returned: if inserted_count == 0: return False
InsertDone(r) ==
    /\ pc[r] = "insert"
    /\ loc[r].i > Len(daily_times)
    /\ IF loc[r].inserted_count = 0
       THEN Return(r, "False")
       ELSE /\ pc' = [pc EXCEPT ![r] = "prune"]
            /\ UNCHANGED res
    /\ UNCHANGED <<gen, config, control, db, tx, loc, faults, started, pre, prev, fault>>

\* (variant: the limit counts days, not rows)
max_records_days == target_days

\* max_records = target_days * len(daily_times)
max_records == target_days * Len(daily_times)

\* _prune_oldest_day, up to the delete: count the rows; within the limit
\* return 0, else find the day of the earliest row.
PruneCount(r) ==
    /\ pc[r] = "prune"
    /\ IF count(View(r)) <= max_records
       THEN /\ loc' = [loc EXCEPT ![r].removed_count = 0]
            /\ pc' = [pc EXCEPT ![r] = "stats"]
       ELSE /\ loc' = [loc EXCEPT ![r].oldest_day_start =
                                      DayStart(LocalDate(earliest(View(r))))]
            /\ pc' = [pc EXCEPT ![r] = "delete"]
    /\ UNCHANGED <<gen, config, control, db, tx, res, faults, started, pre, prev, fault>>

\* Rows of [lo, hi) that another open transaction has deleted and not yet
\* committed: the DELETE waits for their row locks.
LockedByOthers(r, lo, hi) ==
    \E q \in Runners \ {r} : InCycle(q) /\ BagToSet(InRange(tx[q].del, lo, hi)) # {}

\* (variant: only the rows at the earliest timestamp are deleted)
PruneDeleteEarliest(r) ==
    /\ pc[r] = "delete"
    /\ LET lo == earliest(View(r))
           hi == lo + 1
           own == InRange(tx[r].ins, lo, hi)
           old == InRange(db (-) tx[r].del, lo, hi)
       IN  /\ ~LockedByOthers(r, lo, hi)
           /\ tx' = [tx EXCEPT ![r].ins = @ (-) own, ![r].del = @ (+) old]
           /\ loc' = [loc EXCEPT ![r].removed_count = count(own) + count(old)]
    /\ pc' = [pc EXCEPT ![r] = "stats"]
    /\ UNCHANGED <<gen, config, control, db, res, faults, started, pre, prev, fault>>

\* filter(ts__gte=oldest_day_start, ts__lt=oldest_day_end).delete()
PruneDelete(r) ==
    /\ pc[r] = "delete"
    /\ LET lo == loc[r].oldest_day_start
           hi == loc[r].oldest_day_start + MinutesPerDay
           own == InRange(tx[r].ins, lo, hi)
           old == InRange(db (-) tx[r].del, lo, hi)
       IN  /\ ~LockedByOthers(r, lo, hi)
           /\ tx' = [tx EXCEPT ![r].ins = @ (-) own, ![r].del = @ (+) old]
           /\ loc' = [loc EXCEPT ![r].removed_count = count(own) + count(old)]
    /\ pc' = [pc EXCEPT ![r] = "stats"]
    /\ UNCHANGED <<gen, config, control, db, res, faults, started, pre, prev, fault>>

\* total_records = Measurement.objects.count(); log; return True
Stats(r) ==
    /\ pc[r] = "stats"
    /\ Return(r, "True")
    /\ UNCHANGED <<gen, config, control, db, tx, loc, faults, started, pre, prev, fault>>

\* The atomic block is left without an exception, so Django commits.  A
\* transaction the database has aborted commits nothing.
Commit(r) ==
    /\ pc[r] = "commit"
    /\ db' = IF tx[r].aborted THEN db ELSE (db (-) tx[r].del) (+) tx[r].ins
    /\ tx' = [tx EXCEPT ![r] = NoTx]
    /\ loc' = [loc EXCEPT ![r] = NoLoc]
    /\ pc' = [pc EXCEPT ![r] = AfterCycle(r)]
    /\ UNCHANGED <<gen, config, control, res, faults, started, pre, prev, fault>>

\* A store operation of the cycle body raises (the query of _get_next_day,
\* the guard's count, an exists()/create(), the prune's count, earliest() or
\* delete(), the final count()).  The except clause returns False.  Whether
\* the failed statement leaves the transaction aborted depends on the
\* failure and on the database backend.
StoreFails(r) ==
    /\ faults > 0
    /\ \/ pc[r] \in {"next", "guard", "prune", "delete", "stats"}
       \/ /\ pc[r] = "insert"
          /\ loc[r].i <= Len(daily_times)
          /\ ParseTime(daily_times[loc[r].i]) # Err
    /\ faults' = faults - 1
    /\ \E a \in BOOLEAN : tx' = [tx EXCEPT ![r].aborted = a]
    /\ fault' = [fault EXCEPT ![r] = TRUE]
    /\ Return(r, "False")
    /\ UNCHANGED <<gen, config, control, db, loc, started, pre, prev>>

\* The COMMIT itself fails: Atomic.__exit__ rolls back and re-raises, so the
\* exception leaves rotate_and_append_daily_measurements().
CommitFails(r) ==
    /\ faults > 0
    /\ pc[r] = "commit"
    /\ faults' = faults - 1
    /\ tx' = [tx EXCEPT ![r] = NoTx]
    /\ res' = [res EXCEPT ![r] = "raise"]
    /\ loc' = [loc EXCEPT ![r] = NoLoc]
    /\ fault' = [fault EXCEPT ![r] = TRUE]
    /\ pc' = [pc EXCEPT ![r] = AfterCycle(r)]
    /\ UNCHANGED <<gen, config, control, db, started, pre, prev>>

\* (variant: a forced cycle is accepted only while the loop is running)
ForceCycleRunning(f) ==
    /\ pc[f] = "idle"
    /\ _scheduler_running
    /\ Enter(f)
    /\ pc' = [pc EXCEPT ![f] = "next"]
    /\ UNCHANGED <<gen, config, control, db, faults>>

\* force_simulator_cycle: success = rotate_and_append_daily_measurements()
ForceCycle(f) ==
    /\ pc[f] = "idle"
    /\ Enter(f)
    /\ pc' = [pc EXCEPT ![f] = "next"]
    /\ UNCHANGED <<gen, config, control, db, faults>>

\* force_simulator_cycle's answer to the request: success when the cycle
\* returned True, an error response when it returned False or raised.
Response(f) ==
    IF res[f] = "True" THEN [success |-> TRUE, status |-> 200]
    ELSE [success |-> FALSE, status |-> 500]

\* ------------------------------------------------------- the worker thread
\* (variant: the loop does not test the flag)
WorkerLoopNoTest(w) ==
    /\ pc[w] = "while"
    /\ Enter(w)
    /\ pc' = [pc EXCEPT ![w] = "next"]
    /\ UNCHANGED <<gen, config, control, db, faults>>

\* _scheduler_worker: "while _scheduler_running:" then the call of the cycle;
\* the loop is left when the flag is found cleared.
WorkerLoop(w) ==
    /\ pc[w] = "while"
    /\ IF _scheduler_running
       THEN /\ Enter(w)
            /\ pc' = [pc EXCEPT ![w] = "next"]
       ELSE /\ pc' = [pc EXCEPT ![w] = "done"]
            /\ UNCHANGED <<tx, loc, res, pre, prev, fault, started>>
    /\ UNCHANGED <<gen, config, control, db, faults>>

\* time.sleep(interval) returns
WorkerWake(w) ==
    /\ pc[w] = "sleep"
    /\ pc' = [pc EXCEPT ![w] = "while"]
    /\ UNCHANGED <<gen, config, control, store, faults>>

\* ----------------------------------------------------------- the controller
InStart(c) == pc[c] \in {"start_lock", "start_check", "start_spawn"}
FreeWorkers == {w \in Workers : pc[w] = "unborn"}

\* is_scheduler_running()
is_scheduler_running == _scheduler_running

\* (variant: the enabled setting is not consulted)
CallStartNoCheck(c) ==
    /\ pc[c] = "idle"
    /\ calls < MaxCalls
    /\ Cardinality(FreeWorkers) > Cardinality({d \in Callers : InStart(d)})
    /\ calls' = calls + 1
    /\ pc' = [pc EXCEPT ![c] = "start_lock"]
    /\ ret' = [ret EXCEPT ![c] = [op |-> "start", val |-> None]]
    /\ hist' = [hist EXCEPT !.overlap =
                   @ \/ (~_scheduler_running /\ \E d \in Callers : InStart(d))]
    /\ UNCHANGED <<gen, config, store, faults, _scheduler_running, _scheduler_thread,
                   _scheduler_lock>>

\* start_background_scheduler() is called: "if not sim_config['enabled']:
\* return False", before the lock is taken.
CallStart(c) ==
    /\ pc[c] = "idle"
    /\ calls < MaxCalls
    /\ Cardinality(FreeWorkers) > Cardinality({d \in Callers : InStart(d)})
    /\ calls' = calls + 1
    /\ IF ~enabled
       THEN /\ ret' = [ret EXCEPT ![c] = [op |-> "start", val |-> "False"]]
            /\ hist' = [hist EXCEPT !.refStarts = @ + 1]
            /\ UNCHANGED pc
       ELSE /\ pc' = [pc EXCEPT ![c] = "start_lock"]
            /\ ret' = [ret EXCEPT ![c] = [op |-> "start", val |-> None]]
            /\ hist' = [hist EXCEPT !.overlap =
                           @ \/ (~_scheduler_running /\ \E d \in Callers : InStart(d))]
    /\ UNCHANGED <<gen, config, store, faults, _scheduler_running, _scheduler_thread,
                   _scheduler_lock>>

\* (variant: the lock is taken without waiting for its holder)
AcquireNoWait(c) == _scheduler_lock' = c

\* "with _scheduler_lock:" the lock is acquired
Acquire(c) == _scheduler_lock = None /\ _scheduler_lock' = c

StartAcquire(c) ==
    /\ pc[c] = "start_lock"
    /\ Acquire(c)
    /\ pc' = [pc EXCEPT ![c] = "start_check"]
    /\ UNCHANGED <<gen, config, store, faults, _scheduler_running, _scheduler_thread,
                   ret, calls, hist>>

\* "if _scheduler_running: return False" (leaving the with block releases)
StartCheck(c) ==
    /\ pc[c] = "start_check"
    /\ IF _scheduler_running
       THEN /\ ret' = [ret EXCEPT ![c].val = "False"]
            /\ hist' = [hist EXCEPT !.refStarts = @ + 1]
            /\ _scheduler_lock' = None
            /\ pc' = [pc EXCEPT ![c] = "idle"]
       ELSE /\ pc' = [pc EXCEPT ![c] = "start_spawn"]
            /\ UNCHANGED <<ret, hist, _scheduler_lock>>
    /\ UNCHANGED <<gen, config, store, faults, _scheduler_running, _scheduler_thread, calls>>

\* (variant: the new thread sleeps one interval before its first loop test)
StartSpawnSleep(c) ==
    /\ pc[c] = "start_spawn"
    /\ LET w == CHOOSE x \in FreeWorkers : TRUE IN
          /\ _scheduler_thread' = w
          /\ pc' = [pc EXCEPT ![c] = "idle", ![w] = "sleep"]
    /\ _scheduler_running' = TRUE
    /\ ret' = [ret EXCEPT ![c].val = "True"]
    /\ hist' = [hist EXCEPT !.okStarts = @ + 1]
    /\ _scheduler_lock' = None
    /\ UNCHANGED <<gen, config, store, faults, calls>>

\* "_scheduler_running = True", the thread is created and started,
\* "return True"
StartSpawn(c) ==
    /\ pc[c] = "start_spawn"
    /\ LET w == CHOOSE x \in FreeWorkers : TRUE IN
          /\ _scheduler_thread' = w
          /\ pc' = [pc EXCEPT ![c] = "idle", ![w] = "while"]
    /\ _scheduler_running' = TRUE
    /\ ret' = [ret EXCEPT ![c].val = "True"]
    /\ hist' = [hist EXCEPT !.okStarts = @ + 1]
    /\ _scheduler_lock' = None
    /\ UNCHANGED <<gen, config, store, faults, calls>>

\* stop_background_scheduler() is called
CallStop(c) ==
    /\ pc[c] = "idle"
    /\ calls < MaxCalls
    /\ calls' = calls + 1
    /\ pc' = [pc EXCEPT ![c] = "stop_lock"]
    /\ ret' = [ret EXCEPT ![c] = [op |-> "stop", val |-> None]]
    /\ hist' = [hist EXCEPT !.stopCalls = @ + 1]
    /\ UNCHANGED <<gen, config, store, faults, _scheduler_running, _scheduler_thread,
                   _scheduler_lock>>

StopAcquire(c) ==
    /\ pc[c] = "stop_lock"
    /\ Acquire(c)
    /\ pc' = [pc EXCEPT ![c] = "stop_body"]
    /\ UNCHANGED <<gen, config, store, faults, _scheduler_running, _scheduler_thread,
                   ret, calls, hist>>

\* (variant: the flag is cleared and True returned whether or not it was set)
StopBodyAlways(c) ==
    /\ pc[c] = "stop_body"
    /\ _scheduler_running' = FALSE
    /\ ret' = [ret EXCEPT ![c].val = "True"]
    /\ hist' = [hist EXCEPT !.okStops = @ + 1]
    /\ _scheduler_lock' = None
    /\ pc' = [pc EXCEPT ![c] = "idle"]
    /\ UNCHANGED <<gen, config, store, faults, _scheduler_thread, calls>>

\* (variant: True is returned and the flag left as it is)
StopBodyKeep(c) ==
    /\ pc[c] = "stop_body"
    /\ IF ~_scheduler_running
       THEN /\ ret' = [ret EXCEPT ![c].val = "False"]
            /\ UNCHANGED hist
       ELSE /\ ret' = [ret EXCEPT ![c].val = "True"]
            /\ hist' = [hist EXCEPT !.okStops = @ + 1]
    /\ UNCHANGED _scheduler_running
    /\ _scheduler_lock' = None
    /\ pc' = [pc EXCEPT ![c] = "idle"]
    /\ UNCHANGED <<gen, config, store, faults, _scheduler_thread, calls>>

\* "if not _scheduler_running: return False", else
\* "_scheduler_running = False; return True"
StopBody(c) ==
    /\ pc[c] = "stop_body"
    /\ IF ~_scheduler_running
       THEN /\ ret' = [ret EXCEPT ![c].val = "False"]
            /\ UNCHANGED <<_scheduler_running, hist>>
       ELSE /\ _scheduler_running' = FALSE
            /\ ret' = [ret EXCEPT ![c].val = "True"]
            /\ hist' = [hist EXCEPT !.okStops = @ + 1]
    /\ _scheduler_lock' = None
    /\ pc' = [pc EXCEPT ![c] = "idle"]
    /\ UNCHANGED <<gen, config, store, faults, _scheduler_thread, calls>>

\* ------------------------------------------------------ generated values
\* (variant: only the lower limit is enforced)
clamp_low(lo, hi, x) == IF x < lo THEN lo ELSE x

\* max(lo, min(hi, x))
clamp(lo, hi, x) ==
    LET m == IF hi <= x THEN hi ELSE x
    IN  IF lo >= m THEN lo ELSE m

\* round(x, n) for x given in tenths of the last kept digit: the results in
\* units of the last kept digit.  Where x lies exactly between two of them in
\* decimal, the binary value of the float decides, so either is possible.
round(x) ==
    LET q == x \div 10
        r == x % 10
    IN  IF r < 5 THEN {q} ELSE IF r > 5 THEN {q + 1} ELSE {q, q + 1}

\* _generate_realistic_values(): the (temperature, humidity fraction) pairs
\* it may return for the samples g.  A humidity of h/1000 percent is the
\* fraction h/100000, so "humidity / 100.0" keeps the number and changes
\* the unit.
_generate_realistic_values(g) ==
    LET temp == clamp(TempLow, TempHigh, g[1])
        humidity == clamp(RhLow, RhHigh, g[2])
        humidity_fraction == humidity
    IN  round(temp) \X round(humidity_fraction)

\* temp, humidity = _generate_realistic_values(); Measurement.objects.create(
\* temp_current=temp, ..., rh_current=humidity, ...)
CreateReading ==
    /\ \E v \in _generate_realistic_values(gauss) : readings' = readings \cup {v}
    /\ readings' # readings
    /\ UNCHANGED <<gauss, config, store, control, pc, faults>>

\* ------------------------------------------------------------ initial state
\* The module is imported: no thread, flag False, lock free; the table empty.
InitThreads ==
    /\ tx = [r \in Runners |-> NoTx]
    /\ loc = [r \in Runners |-> NoLoc]
    /\ res = [r \in Runners |-> None]
    /\ pre = [r \in Runners |-> EmptyBag]
    /\ prev = [r \in Runners |-> None]
    /\ fault = [r \in Runners |-> FALSE]
    /\ pc = [t \in Threads |-> IF t \in Workers THEN "unborn" ELSE "idle"]
    /\ _scheduler_running = FALSE
    /\ _scheduler_thread = None
    /\ _scheduler_lock = None
    /\ ret = [c \in Callers |-> [op |-> None, val |-> None]]
    /\ started = 0
    /\ calls = 0
    /\ hist = [okStarts |-> 0, refStarts |-> 0, okStops |-> 0, stopCalls |-> 0,
               overlap |-> FALSE]
    /\ readings = {}

InitState == db = EmptyBag /\ gauss = <<TempMean, RhMean>> /\ InitThreads

\* settings.py: SIM_DAILY_TIMES = ["07:30", "16:30"], and other values a
\* deployment may set
DefaultTimes == <<T0730, T1630>>
AnyTimes ==
    {DefaultTimes, <<T1630, T0730>>, <<T0730>>, <<>>, <<T7xx>>, <<T0730, T7xx>>,
     <<T7xx, T0730>>, <<T0730, T730>>, <<T0730, T2530>>, <<T0730s>>,
     <<T0730, T730, T1630>>}

\* ------------------------------------------------------------ specifications
\* The whole system: controller calls, worker threads and forced cycles
\* interleave; the configuration is the default one with a short window.
Init ==
    /\ InitState
    /\ daily_times = DefaultTimes
    /\ target_days = 1
    /\ enabled \in BOOLEAN
    /\ faults = 0
    /\ cap = MaxConcCycles

CycleStep(r) ==
    \/ GetNextDay(r) \/ DayGuard(r) \/ InsertRecord(r) \/ InsertDone(r)
    \/ PruneCount(r) \/ PruneDelete(r) \/ Stats(r) \/ Commit(r)

Next ==
    \/ \E c \in Callers :
          \/ CallStart(c) \/ StartAcquire(c) \/ StartCheck(c) \/ StartSpawn(c)
          \/ CallStop(c) \/ StopAcquire(c) \/ StopBody(c)
    \/ \E w \in Workers : WorkerLoop(w) \/ WorkerWake(w)
    \/ \E f \in Forcers : ForceCycle(f)
    \/ \E r \in Runners : CycleStep(r)

Spec == Init /\ [][Next]_vars

\* Cycles called one after the other by one caller, under any configuration.
InitSeq ==
    /\ InitState
    /\ daily_times \in AnyTimes
    /\ target_days \in 0..MaxTargetDays
    /\ enabled \in BOOLEAN
    /\ faults = 0
    /\ cap = MaxCycles

NextSeq == \E f \in Forcers : ForceCycle(f) \/ CycleStep(f)

SpecSeq == InitSeq /\ [][NextSeq]_vars

\* The same, with store operations that may fail.
InitFault ==
    /\ InitState
    /\ daily_times \in AnyTimes
    /\ target_days \in 0..MaxTargetDays
    /\ enabled \in BOOLEAN
    /\ faults = MaxFaults
    /\ cap = MaxCycles

NextFault ==
    \E f \in Forcers : ForceCycle(f) \/ CycleStep(f) \/ StoreFails(f) \/ CommitFails(f)

SpecFault == InitFault /\ [][NextFault]_vars

\* Sequential cycles on a table that already holds whole days of readings
\* when the process starts: days kept under a larger SIM_TARGET_DAYS before
\* the setting was lowered, or rows loaded by the import_excel command.
InitBacklog ==
    /\ InitThreads
    /\ gauss = <<TempMean, RhMean>>
    /\ daily_times \in AnyTimes
    /\ target_days \in 0..MaxTargetDays
    /\ enabled \in BOOLEAN
    /\ faults = 0
    /\ cap = MaxCycles
    /\ \E b \in 0..MaxBacklogDays :
          LET times == {ParseTime(daily_times[i]) : i \in 1..Len(daily_times)} \ {Err}
          IN  db = SetToBag({DayStart(d) + m : d \in 0..(b - 1), m \in times})

SpecBacklog == InitBacklog /\ [][NextSeq]_vars

\* The SimulatorScheduler threads alone, with store operations that may
\* fail under them.  The threads are scheduled fairly: a sleep returns, and a
\* thread that can take its next step takes it.
LoopTimes == <<T0730>>  \* SIM_DAILY_TIMES set to one reading a day
LoopCallers == {"c1"}   \* controller calls come from one thread (apps.py)

InitLoop ==
    /\ InitState
    /\ daily_times = LoopTimes
    /\ target_days = 1
    /\ enabled = TRUE
    /\ faults = MaxFaults
    /\ cap = MaxConcCycles

NextLoop ==
    \/ \E c \in LoopCallers :
          \/ CallStart(c) \/ StartAcquire(c) \/ StartCheck(c) \/ StartSpawn(c)
          \/ CallStop(c) \/ StopAcquire(c) \/ StopBody(c)
    \/ \E w \in Workers :
          \/ WorkerLoop(w) \/ WorkerWake(w) \/ CycleStep(w)
          \/ StoreFails(w) \/ CommitFails(w)

FairLoop ==
    \A w \in Workers :
        WF_vars(WorkerWake(w)) /\ WF_vars(WorkerLoop(w)) /\ WF_vars(CycleStep(w))

SpecLoop == InitLoop /\ [][NextLoop]_vars /\ FairLoop

\* The value generator alone: every create() of a behaviour gets the samples
\* drawn at its start, taken around the two ends of each clamp range, at the
\* means and far outside.
Drift == (0 - MaxDrift)..MaxDrift
TempSamples ==
    {TempLow + d : d \in Drift} \cup {TempHigh + d : d \in Drift}
        \cup {TempMean, 0 - Outlier, Outlier}
RhSamples ==
    {RhLow + d : d \in Drift} \cup {RhHigh + d : d \in Drift}
        \cup {RhMean, 0 - Outlier, Outlier}

InitGen ==
    /\ InitThreads
    /\ db = EmptyBag
    /\ daily_times = DefaultTimes
    /\ target_days = 1
    /\ enabled = TRUE
    /\ faults = 0
    /\ cap = MaxCycles
    /\ gauss \in TempSamples \X RhSamples

NextGen == CreateReading

SpecGen == InitGen /\ [][NextGen]_vars

\* ------------------------------------------------------ derived quantities
\* The local dates that have at least one row in b
Days(b) == {LocalDate(t) : t \in BagToSet(b)}

\* The rows of b whose local date is d
OnDay(b, d) == InRange(b, DayStart(d), DayStart(d) + MinutesPerDay)

\* Every configured time parses
WellFormed == \A i \in 1..Len(daily_times) : ParseTime(daily_times[i]) # Err

\* The minutes of the day the configured times denote
Minutes == {ParseTime(daily_times[i]) : i \in 1..Len(daily_times)} \ {Err}

\* Well-formed, pairwise distinct clock times: k = len(daily_times) readings a day
ValidTimes == WellFormed /\ Cardinality(Minutes) = Len(daily_times)

\* A cycle of f has returned and f made at least n calls
Returned(f, n) == pc[f] = "idle" /\ started >= n /\ res[f] # None

\* ------------------------------------------------------------------- C1
\* C1 as stated: when runCycle() is called twice in succession (the first
\* call having succeeded), the second call inserts nothing, leaves the count
\* and the store unchanged and returns true.
C1_SecondCallNoOp ==
    \A f \in Forcers :
        (Returned(f, 2) /\ prev[f] = "True") =>
            (res[f] = "True" /\ db = pre[f])

\* C1 amended: the second of two successive calls, the first having returned
\* true, returns true too and adds no reading to a day that was already
\* stored; with target_days >= 1 it is not a no-op: it writes the day after
\* the latest stored day, one reading per distinct configured time.
C1_SecondCallNextDay ==
    \A f \in Forcers :
        (Returned(f, 2) /\ prev[f] = "True") =>
            /\ res[f] = "True"
            /\ \A d \in Days(pre[f]) : count(OnDay(db, d)) <= count(OnDay(pre[f], d))
            /\ target_days >= 1 =>
                  /\ Days(pre[f]) # {} /\ Days(db) # {}
                  /\ LocalDate(latest(db)) = LocalDate(latest(pre[f])) + 1
                  /\ count(OnDay(db, LocalDate(latest(db)))) = Cardinality(Minutes)
                  /\ Cardinality(Minutes) >= 1

C1_Witness ==
    \E f \in Forcers :
        /\ Returned(f, 2) /\ prev[f] = "True" /\ res[f] = "True"
        /\ target_days >= 1
        /\ count(db) > count(pre[f])

\* ------------------------------------------------------------------- C8
\* C8: after the n-th of n sequential cycles from the empty store, with k
\* valid clock times and target_days = d, count() = min(n, d) * k, which
\* never exceeds d * k.
C8_GrowthBound ==
    \A f \in Forcers :
        (ValidTimes /\ (pc[f] = "idle")) =>
            /\ count(db) = Min(started, target_days) * Len(daily_times)
            /\ count(db) <= target_days * Len(daily_times)

C8_Witness ==
    \E f \in Forcers :
        /\ ValidTimes /\ pc[f] = "idle"
        /\ Len(daily_times) = 2 /\ target_days = 2 /\ started = 3
        /\ count(db) = 4

\* ------------------------------------------------------------------- C9
\* C9: with k valid clock times, a successful cycle that starts with the
\* store at capacity d * k inserts exactly k readings for the new day and
\* evicts exactly the k readings of the oldest day: the count is unchanged
\* and the store holds exactly the d most recent days.
C9_EvictionGranularity ==
    \A f \in Forcers :
        (ValidTimes /\ res[f] = "True" /\ count(pre[f]) = target_days * Len(daily_times)) =>
            /\ pc[f] = "commit" =>
                  /\ loc[f].inserted_count = Len(daily_times)
                  /\ loc[f].removed_count = Len(daily_times)
                  /\ count(OnDay(tx[f].ins, LocalDate(loc[f].next_day)))
                        = IF target_days = 0 THEN 0 ELSE Len(daily_times)
                  /\ target_days >= 1 =>
                        tx[f].del = OnDay(db, LocalDate(earliest(db)))
            /\ pc[f] = "idle" =>
                  /\ count(db) = count(pre[f])
                  /\ Days(db) = {d \in 0..(started - 1) : d >= started - target_days}
                  /\ \A d \in Days(db) : count(OnDay(db, d)) = Len(daily_times)

\* Scenario B: d = 2, k = 2; the third cycle (2025-01-03) has returned.
C9_Witness ==
    \E f \in Forcers :
        /\ ValidTimes /\ res[f] = "True" /\ pc[f] = "idle"
        /\ target_days = 2 /\ Len(daily_times) = 2 /\ started = 3
        /\ count(pre[f]) = 4 /\ count(db) = 4
        /\ Days(db) = {1, 2}

\* ------------------------------------------------------------------- C4
\* C4: with a malformed entry anywhere in daily_times, the cycle returns
\* false and the store is exactly as it was before the cycle.
C4_MalformedNoWrite ==
    \A f \in Forcers :
        (Returned(f, 1) /\ ~WellFormed) => (res[f] = "False" /\ db = pre[f])

\* ------------------------------------------------------------------- C3
\* The configured times that parse are pairwise distinct
DistinctTimes ==
    \A i, j \in 1..Len(daily_times) :
        (i # j /\ ParseTime(daily_times[i]) # Err) =>
            ParseTime(daily_times[i]) # ParseTime(daily_times[j])

\* C3: in every committed state of the store, each day holds either none or
\* all k = len(daily_times) of its readings.
C3_AtomicDay ==
    DistinctTimes =>
        \A d \in Days(db) : count(OnDay(db, d)) = Len(daily_times)

\* ------------------------------------------------------------------- C5
\* C5: when a store operation of the cycle body has failed, the cycle returns
\* false and the store equals the store before the cycle began.
C5_RollbackOnFailure ==
    \A f \in Forcers :
        (Returned(f, 1) /\ fault[f] /\ res[f] # "raise") =>
            (res[f] = "False" /\ db = pre[f])

\* ------------------------------------------------------------------- C2
LiveWorkers == {w \in Workers : pc[w] \notin {"unborn", "done"}}

\* C2: at most one worker thread is alive and at most one loop-driven cycle
\* is executing at any time.
C2_SingleWorker ==
    /\ Cardinality(LiveWorkers) <= 1
    /\ Cardinality({w \in Workers : InCycle(w)}) <= 1

\* ------------------------------------------------------------------- C6
\* C6: a forced cycle and a loop cycle that ran at the same time on the
\* empty store (each began before the other had committed) together add
\* exactly one day, k readings: one of them was a no-op.
C6_ForceAndLoopAddOneDay ==
    \A f \in Forcers, w \in Workers :
        ( /\ pc[f] = "idle" /\ res[f] # None
          /\ pc[w] = "sleep" /\ res[w] # None
          /\ started = 2
          /\ pre[f] = EmptyBag /\ pre[w] = EmptyBag ) =>
            /\ Days(db) = {0}
            /\ count(db) = Len(daily_times)

\* ------------------------------------------------------------------- C7
\* C7: no two readings of the store share a timestamp.
C7_UniqueTimestamps == \A t \in BagToSet(db) : CopiesIn(t, db) = 1

\* ------------------------------------------------------------------ C10
Spawned == {w \in Workers : pc[w] # "unborn"}
AllReturned == \A c \in Callers : pc[c] = "idle"

\* C10: every start() that returns true spawns exactly one worker and a
\* start() that returns false spawns none; between two successful stops at
\* most one start() returns true, so a start() on a running controller
\* returns false; and when only start() has been called on the enabled
\* controller, two or more times, simultaneously or not, exactly one call
\* returned true, the others false, and is_scheduler_running() is true.
C10_ConcurrentStart ==
    /\ Cardinality(Spawned) = hist.okStarts
    /\ hist.okStarts = hist.okStops + (IF is_scheduler_running THEN 1 ELSE 0)
    /\ (enabled /\ AllReturned /\ hist.stopCalls = 0 /\ calls >= 2) =>
          /\ hist.okStarts = 1
          /\ hist.refStarts = calls - 1
          /\ is_scheduler_running

\* Two start() calls were in flight together on the stopped controller, and
\* both have returned.
C10_Witness ==
    /\ enabled /\ AllReturned /\ hist.stopCalls = 0 /\ calls = 2
    /\ hist.overlap
    /\ {ret[c].val : c \in Callers} = {"True", "False"}
    /\ Cardinality(Spawned) = 1

\* ------------------------------------------------------------------ C11
\* The workers a stop() that returned true was meant to end.  A start() that
\* returns true makes its new thread the _scheduler_thread and needs the flag
\* cleared, so a spawned worker that is not the _scheduler_thread was the
\* running worker when some stop() returned true, as was the
\* _scheduler_thread itself once the flag is cleared.
StoppedWorker(w) ==
    /\ w \in Spawned
    /\ w # _scheduler_thread \/ ~_scheduler_running

\* C11: after a stop() that returned true, the worker that was running then
\* exits its loop the next time it tests the flag (it begins no further
\* cycle), whatever controller calls follow the stop().
C11_StopTakesEffect ==
    [][\A w \in Workers :
          (StoppedWorker(w) /\ pc[w] = "while" /\ pc'[w] # "while") =>
              pc'[w] = "done"]_vars

\* ------------------------------------------------------------------ C12
\* C12: no result of a cycle ends the worker's loop: a worker exits only at
\* its loop test, on finding the flag cleared; and after every cycle, whether
\* it returned true, returned false or raised, the worker sleeps and then
\* begins the next cycle, unless the flag has been cleared (or the bound on
\* the number of cycles is reached).
C12_LoopResilience ==
    /\ [][\A w \in Workers :
            /\ (pc'[w] = "done" /\ pc[w] # "done") =>
                   (pc[w] = "while" /\ ~_scheduler_running)
            /\ (pc[w] = "commit" /\ pc'[w] # "commit") => pc'[w] = "sleep"]_vars
    /\ \A w \in Workers :
          (pc[w] = "commit") ~>
              (pc[w] = "next" \/ ~_scheduler_running \/ started = cap)

\* A worker has begun a cycle after one that returned false or raised.
C12_Witness ==
    \E w \in Workers : InCycle(w) /\ prev[w] \in {"False", "raise"}

\* ------------------------------------------------------------------ C13
\* C13: a cycle, whether it succeeds or fails, writes rows of at most one
\* local date and deletes rows of at most one local date, so the committed
\* store differs from the store the cycle began with by at most one day
\* added and one day removed; and a cycle that returns true after inserting
\* into a non-empty store leaves the latest local date exactly one day after
\* the latest local date it began with.
C13_OneDayPerCycle ==
    \A f \in Forcers :
        /\ Cardinality(Days(tx[f].ins)) <= 1
        /\ Cardinality(Days(tx[f].del)) <= 1
        /\ Returned(f, 1) =>
              /\ Cardinality(Days(db (-) pre[f])) <= 1
              /\ Cardinality(Days(pre[f] (-) db)) <= 1
        /\ (Returned(f, 1) /\ res[f] = "True" /\ BagToSet(pre[f]) # {}) =>
              /\ BagToSet(db) # {}
              /\ LocalDate(latest(db)) = LocalDate(latest(pre[f])) + 1

\* A cycle returned true having added one day to a non-empty store and
\* evicted one day.
C13_Witness ==
    \E f \in Forcers :
        /\ Returned(f, 2) /\ res[f] = "True"
        /\ BagToSet(pre[f]) # {}
        /\ Cardinality(Days(db (-) pre[f])) = 1
        /\ Cardinality(Days(pre[f] (-) db)) = 1
        /\ LocalDate(latest(db)) = LocalDate(latest(pre[f])) + 1

\* ------------------------------------------------------------------ C14
\* C14: the day a cycle targets is a function of the store it begins with:
\* the bootstrap date (day 0, 2025-01-01) when the store is empty, else the
\* local date of the latest reading plus one; and with well-formed clock
\* times, at least one of them, a cycle on the empty store inserts exactly
\* one reading at each configured time of the bootstrap date and returns
\* true, which with target_days >= 1 is then the content of the store.
C14_TargetFromStore ==
    \A f \in Forcers :
        /\ pc[f] \in {"guard", "insert", "prune", "delete", "stats"} =>
              loc[f].next_day = IF BagToSet(pre[f]) = {} THEN 0
                                ELSE (LocalDate(latest(pre[f])) + 1) * MinutesPerDay
        /\ (WellFormed /\ Len(daily_times) > 0 /\ BagToSet(pre[f]) = {}) =>
              /\ pc[f] = "prune" => tx[f].ins = SetToBag(Minutes)
              /\ Returned(f, 1) =>
                    /\ res[f] = "True"
                    /\ target_days >= 1 => db = SetToBag(Minutes)

\* The first cycle under the default configuration has returned true and the
\* store holds 2025-01-01 07:30 and 16:30.
C14_Witness ==
    \E f \in Forcers :
        /\ Returned(f, 1) /\ started = 1 /\ res[f] = "True"
        /\ daily_times = DefaultTimes
        /\ db = SetToBag({450, 990})

\* ------------------------------------------------------------------ C15
\* C15: after a cycle that failed on a store operation while targeting day
\* D, the next cycle targets day D again: the failed cycle returns false and
\* the day computed from the committed store is the day computed from the
\* store the failed cycle began with.
C15_RetrySameDay ==
    \A f \in Forcers :
        (Returned(f, 1) /\ fault[f] /\ res[f] = "False") =>
            _get_next_day(db) = _get_next_day(pre[f])

\* ------------------------------------------------------------------ C16
\* C16: the delete of _prune_oldest_day removes from the table, as the cycle
\* sees it, every row on the local date of the earliest row and no other
\* row, and the number it returns is the number of rows removed, which is at
\* least one.
C16_WholeDayEviction ==
    [][\A f \in Forcers :
          (pc[f] = "delete" /\ pc'[f] = "stats") =>
              LET V == View(f)
                  d == LocalDate(earliest(V))
              IN  /\ BagToSet(OnDay(View(f)', d)) = {}
                  /\ View(f)' = V (-) OnDay(V, d)
                  /\ loc'[f].removed_count = count(V) - count(View(f)')
                  /\ loc'[f].removed_count >= 1]_vars

\* An eviction has removed a day of two readings and left a later day.
C16_Witness ==
    \E f \in Forcers :
        /\ pc[f] = "stats"
        /\ loc[f].removed_count = 2
        /\ Cardinality(Days(tx[f].del)) = 1
        /\ BagToSet(View(f)) # {}

\* ------------------------------------------------------------------ C17
\* C17: when _prune_oldest_day finds count() <= target_days *
\* len(daily_times), it returns 0 and deletes nothing: the table, the
\* cycle's own writes and the committed store are unchanged.
C17_NoOpBelowCapacity ==
    [][\A f \in Forcers :
          (pc[f] = "prune" /\ pc'[f] # "prune"
              /\ count(View(f)) <= target_days * Len(daily_times)) =>
              /\ pc'[f] = "stats"
              /\ loc'[f].removed_count = 0
              /\ View(f)' = View(f)
              /\ tx' = tx /\ db' = db]_vars

\* _prune_oldest_day has returned 0 on a table that is exactly at capacity.
C17_Witness ==
    \E f \in Forcers :
        /\ pc[f] = "stats"
        /\ loc[f].removed_count = 0
        /\ count(View(f)) = target_days * Len(daily_times)
        /\ count(View(f)) > 0
        /\ tx[f].del = EmptyBag

\* ------------------------------------------------------------------ C18
\* C18: a backlog is drained: a cycle that returns true on a store holding
\* more than target_days * len(daily_times) readings leaves the store with
\* fewer readings than it began with, so that repeated cycles bring the
\* count down to the capacity.
C18_BacklogDrain ==
    \A f \in Forcers :
        (ValidTimes /\ Returned(f, 1) /\ res[f] = "True"
            /\ count(pre[f]) > target_days * Len(daily_times)) =>
            count(db) < count(pre[f])

\* ------------------------------------------------------------------ C19
\* C19: with the feature disabled by configuration, every start() returns
\* false, no worker thread is ever spawned, and the running flag stays false
\* (is_scheduler_running() answers false), whatever start() and stop() calls
\* came before.
C19_DisabledStart ==
    ~enabled =>
        /\ ~is_scheduler_running
        /\ Spawned = {}
        /\ _scheduler_thread = None
        /\ hist.okStarts = 0
        /\ \A c \in Callers : ~InStart(c)
        /\ \A c \in Callers : ret[c].op = "start" => ret[c].val = "False"

\* Disabled: two start() calls have returned false, with a stop() among the
\* calls made.
C19_Witness ==
    /\ ~enabled
    /\ hist.refStarts >= 2
    /\ hist.stopCalls >= 1
    /\ \E c \in Callers : ret[c] = [op |-> "start", val |-> "False"]

\* ------------------------------------------------------------------ C20
\* C20: a stop() that finds the controller not running returns false and
\* changes neither the running flag, nor the worker handle, nor any worker,
\* nor the store.
C20_StopWhenStopped ==
    [][\A c \in Callers :
          (pc[c] = "stop_body" /\ ~_scheduler_running /\ pc'[c] # "stop_body") =>
              /\ pc'[c] = "idle"
              /\ ret'[c] = [op |-> "stop", val |-> "False"]
              /\ UNCHANGED <<_scheduler_running, _scheduler_thread, store>>
              /\ \A w \in Workers : pc'[w] = pc[w]]_vars

\* A stop() has returned false on a controller that had been started and
\* stopped before.
C20_Witness ==
    \E c \in Callers :
        /\ pc[c] = "idle"
        /\ ret[c] = [op |-> "stop", val |-> "False"]
        /\ hist.okStops >= 1
        /\ ~_scheduler_running

\* ------------------------------------------------------------------ C21
\* C21: every reading written has its temperature within 17.00 .. 19.50
\* degrees and its humidity fraction within 0.5600 .. 0.6500, rounding
\* included.
C21_ValueBounds ==
    \A v \in readings :
        /\ 1700 <= v[1] /\ v[1] <= 1950
        /\ 5600 <= v[2] /\ v[2] <= 6500

\* Readings have been written from samples above the upper temperature limit
\* and below the lower humidity limit.
C21_Witness ==
    /\ gauss[1] > TempHigh /\ gauss[2] < RhLow
    /\ readings = {<<1950, 5600>>}

\* ------------------------------------------------------------------ C22
\* The forcer f takes a step
Steps(f) == <<pc[f], loc[f], tx[f], res[f]>>' # <<pc[f], loc[f], tx[f], res[f]>>

\* C22: a forced cycle can be begun whether the loop is running or stopped
\* (whenever the handler is idle); no step of it changes the running flag,
\* the worker handle or any worker; and its answer reports success exactly
\* when the cycle returned true.
C22_ForceIndependent ==
    /\ [](\A f \in Forcers : (pc[f] = "idle" /\ started < cap) => ENABLED ForceCycle(f))
    /\ [][\A f \in Forcers :
            Steps(f) =>
                /\ UNCHANGED <<_scheduler_running, _scheduler_thread, _scheduler_lock>>
                /\ \A t \in Workers \cup Callers : pc'[t] = pc[t]
                /\ pc'[f] = "idle" => Response(f)'.success = (res'[f] = "True")]_vars

\* A forced cycle is in progress while the loop is running and its worker
\* sleeps.
C22_Witness ==
    \E f \in Forcers :
        /\ pc[f] = "insert"
        /\ _scheduler_running
        /\ \E w \in Workers : pc[w] = "sleep"

\* ------------------------------------------------------------------ C23
\* C23: a cycle whose day guard finds a row on the target day returns true
\* at once, with nothing inserted and nothing deleted (the prune is not
\* reached), and its commit leaves the table as it is.
C23_IdempotencyGuard ==
    [][\A r \in Runners :
          /\ (pc[r] = "guard" /\ existing_count(r) > 0 /\ pc'[r] # "guard") =>
                /\ pc'[r] = "commit" /\ res'[r] = "True"
                /\ tx'[r] = NoTx /\ loc'[r].inserted_count = 0
                /\ db' = db
          /\ (pc[r] = "commit" /\ loc[r].i = 0 /\ res[r] = "True" /\ pc'[r] # "commit") =>
                /\ tx[r] = NoTx
                /\ db' = db]_vars

\* A cycle has returned true at the day guard: another cycle committed the
\* target day between this cycle's latest() query and its guard.
C23_Witness ==
    \E r \in Runners :
        /\ pc[r] = "commit" /\ res[r] = "True" /\ loc[r].i = 0
        /\ existing_count(r) > 0

\* ------------------------------------------------------------------ C24
\* C24 as stated: the worker sleeps and only then invokes the cycle, so a
\* worker begins a cycle only after a sleep: since the worker sleeps only
\* after a cycle of its own, a worker that begins a cycle has the result of
\* an earlier one.
C24_SleepBeforeCycle ==
    [][\A w \in Workers :
          (pc[w] = "while" /\ pc'[w] = "next") => res[w] # None]_vars

\* C24 as the code has it: the worker tests the flag, runs the cycle and
\* then sleeps.  A new thread goes straight to the loop test, so its first
\* cycle begins without any sleep; every cycle begins right after a loop
\* test that found the flag set; every loop test follows either the start of
\* the thread or a sleep; and every sleep follows a cycle.
C24_CycleThenSleep ==
    [][\A w \in Workers :
          /\ (pc[w] = "unborn" /\ pc'[w] # "unborn") => pc'[w] = "while"
          /\ (pc[w] # "next" /\ pc'[w] = "next") =>
                (pc[w] = "while" /\ _scheduler_running)
          /\ (pc[w] # "while" /\ pc'[w] = "while") => pc[w] \in {"unborn", "sleep"}
          /\ (pc[w] # "sleep" /\ pc'[w] = "sleep") => pc[w] = "commit"]_vars

\* A worker is in its first cycle: it has no earlier result, so it has not
\* slept.
C24_Witness ==
    \E w \in Workers : InCycle(w) /\ prev[w] = None /\ res[w] = None

\* ------------------------------------------------------------------ C25
\* C25: the stop() that clears the flag touches no worker, no open
\* transaction and no row; a cycle in flight goes on step by step to its
\* commit, after which the worker sleeps; and while the flag stays cleared
\* (no later start()) no worker begins a cycle: a worker that tests the flag
\* then leaves its loop.
C25_CooperativeCancel ==
    [][/\ (_scheduler_running /\ ~_scheduler_running') =>
              /\ \A w \in Workers : pc'[w] = pc[w]
              /\ tx' = tx /\ loc' = loc /\ db' = db
       /\ \A w \in Workers :
              /\ (InCycle(w) /\ pc'[w] # pc[w]) =>
                    (InCycle(w)' \/ (pc[w] = "commit" /\ pc'[w] = "sleep"))
              /\ (~_scheduler_running /\ pc[w] = "while" /\ pc'[w] # "while") =>
                    pc'[w] = "done"
              /\ (~_scheduler_running /\ pc[w] # "next") => pc'[w] # "next"]_vars

\* A stop() has returned true and cleared the flag while a worker's cycle is
\* in flight with a row written and not yet committed.
C25_Witness ==
    \E w \in Workers :
        /\ ~_scheduler_running /\ hist.okStops >= 1
        /\ InCycle(w) /\ tx[w].ins # EmptyBag

\* ------------------------------------------------------------------ C26
\* The timestamp the insert loop of f is about to process, or Err
Pending(f) ==
    IF pc[f] = "insert" /\ loc[f].i <= Len(daily_times)
    THEN LET minute == ParseTime(daily_times[loc[f].i])
         IN  IF minute = Err THEN Err
             ELSE loc[f].next_day + minute
    ELSE Err

\* C26: in the insert loop, a clock time whose exact timestamp is already in
\* the table is passed over, nothing being written and the loop going on to
\* the next time, and one that is not gets exactly one row; so the table
\* never holds two rows with one timestamp, and with all times well-formed,
\* even if one is listed twice, the cycle returns true.
C26_ExactTimestampSkip ==
    /\ [](\A f \in Forcers :
            /\ \A ts \in BagToSet(View(f)) : CopiesIn(ts, View(f)) = 1
            /\ (Returned(f, 1) /\ WellFormed /\ Len(daily_times) > 0) => res[f] = "True")
    /\ [][\A f \in Forcers :
            (Pending(f) # Err /\ loc'[f] # loc[f]) =>
                /\ pc'[f] = "insert" /\ loc'[f].i = loc[f].i + 1
                /\ IF CopiesIn(Pending(f), View(f)) > 0
                   THEN /\ tx' = tx
                        /\ loc'[f].inserted_count = loc[f].inserted_count
                   ELSE /\ View(f)' = View(f) (+) SetToBag({Pending(f)})
                        /\ loc'[f].inserted_count = loc[f].inserted_count + 1]_vars

\* With 07:30 listed twice ("07:30", "7:30") and 16:30 after them, a cycle
\* has returned true and the day holds one 07:30 row and the 16:30 row.
C26_Witness ==
    \E f \in Forcers :
        /\ daily_times = <<T0730, T730, T1630>>
        /\ Returned(f, 1) /\ started = 1 /\ res[f] = "True"
        /\ target_days >= 1
        /\ db = SetToBag({450, 990})

\* ------------------------------------------------------------------ C27
\* C27: from the empty store, under k valid clock times and target_days >=
\* 1, between sequential cycles the dates in the store are consecutive days
\* up to the latest one, and each of them holds exactly k readings.
C27_ContiguousFullDays ==
    \A f \in Forcers :
        (ValidTimes /\ target_days >= 1 /\ pc[f] = "idle" /\ BagToSet(db) # {}) =>
            LET last == LocalDate(latest(db))
                n == Cardinality(Days(db))
            IN  /\ Days(db) = (last - n + 1)..last
                /\ \A d \in Days(db) : count(OnDay(db, d)) = Len(daily_times)

\* After four cycles with two readings a day and a window of two days, the
\* store holds days 2 and 3.
C27_Witness ==
    \E f \in Forcers :
        /\ ValidTimes /\ Len(daily_times) = 2 /\ target_days = 2
        /\ pc[f] = "idle" /\ started = 4
        /\ Days(db) = {2, 3}

\* ------------------------------------------------------------------ C28
\* C28: from the empty store with target_days >= 1, the eviction of a cycle
\* never removes a row the same cycle inserted; after a cycle that returned
\* true the target day is the latest day of the store and has rows; and
\* once the store is non-empty it never becomes empty and its latest date
\* never decreases from one cycle to the next.
C28_NewestDaySurvives ==
    \A f \in Forcers :
        target_days >= 1 =>
            /\ InCycle(f) => count(tx[f].ins) = loc[f].inserted_count
            /\ (Returned(f, 1) /\ res[f] = "True") =>
                  LET target == IF BagToSet(pre[f]) = {} THEN 0
                                ELSE LocalDate(latest(pre[f])) + 1
                  IN  /\ BagToSet(OnDay(db, target)) # {}
                      /\ LocalDate(latest(db)) = target
            /\ (Returned(f, 1) /\ BagToSet(pre[f]) # {}) =>
                  /\ BagToSet(db) # {}
                  /\ LocalDate(latest(db)) >= LocalDate(latest(pre[f]))

\* A cycle that evicted a day has returned true and its target day, day 1,
\* is in the store.
C28_Witness ==
    \E f \in Forcers :
        /\ target_days = 1 /\ Returned(f, 2) /\ res[f] = "True"
        /\ Days(pre[f]) = {0}
        /\ Days(db) = {1}

\* ------------------------------------------------------------------ C29
\* C29: a cycle that does not return true (it inserted nothing, or a store
\* operation failed) or that returns true at the day guard deletes no
\* reading: every row of the store it began with is still in the store when
\* it has returned.
C29_EvictionOnlyAfterInsert ==
    \A f \in Forcers :
        (Returned(f, 1) /\ res[f] # "True") => BagToSet(pre[f] (-) db) = {}

\* ------------------------------------------------------------------ C30
\* C30: the running flag changes only in the step of a start() that returns
\* true (which sets it) and in the step of a stop() that returns true (which
\* clears it), never in a step of a worker or of a cycle; so
\* is_scheduler_running() is true exactly when one more start() than stop()
\* has returned true; and with the feature enabled a start() that finds the
\* flag cleared, also after a stop(), sets it and returns true.
C30_RestartableLifecycle ==
    /\ [](/\ is_scheduler_running <=> hist.okStarts = hist.okStops + 1
          /\ ~is_scheduler_running <=> hist.okStarts = hist.okStops)
    /\ [][/\ (_scheduler_running' # _scheduler_running) =>
                \E c \in Callers :
                    /\ pc'[c] = "idle" /\ ret'[c].val = "True"
                    /\ \/ pc[c] = "start_spawn" /\ _scheduler_running'
                       \/ pc[c] = "stop_body" /\ ~_scheduler_running'
          /\ \A c \in Callers :
                /\ (pc[c] = "start_check" /\ ~_scheduler_running /\ pc'[c] # pc[c]) =>
                      pc'[c] = "start_spawn"
                /\ (pc[c] = "start_spawn" /\ pc'[c] # pc[c]) =>
                      (_scheduler_running' /\ ret'[c] = [op |-> "start", val |-> "True"])
                /\ (pc[c] = "stop_body" /\ _scheduler_running /\ pc'[c] # pc[c]) =>
                      (~_scheduler_running' /\ ret'[c] = [op |-> "stop", val |-> "True"])]_vars

\* start(), stop() and start() again have each returned true: the
\* controller is running for the second time.
C30_Witness ==
    /\ hist.okStarts = 2 /\ hist.okStops = 1
    /\ is_scheduler_running
    /\ \E c \in Callers : pc[c] = "idle" /\ ret[c] = [op |-> "start", val |-> "True"]

====
